---- MODULE Spec2Model ----
(***************************************************************************)
(* State-machine model of odt_to_txt.py: a command-line tool that walks    *)
(* the paths it is given, hands every document it finds to an external     *)
(* converter, renames the converter's output and writes a line-wrapped     *)
(* companion file.                                                         *)
(*                                                                         *)
(* Text (file names, file contents) is a sequence of one-character         *)
(* strings; a path is a sequence of components, each component a name.     *)
(* The file system is a function from the paths that exist to entries.     *)
(* The platform modelled is POSIX (case-sensitive names and globbing).     *)
(***************************************************************************)
EXTENDS Integers, Sequences, FiniteSets, TLC

VARIABLES
    fs,             \* the file system: path -> [kind, content, mtime]
    fs0,            \* history: the file system before the run
    opts,           \* AppOptions: path_list, do_recurse, do_overwrite, dt_tag
    warnings,       \* the module-level warnings list
    stdout,         \* history: the lines printed so far
    pc,             \* "run" | "done" | "aborted" | "wrap" | "wrapped"
    pathIdx,        \* position of process_paths' loop in opts.path_list
    pass,           \* 0: not inside a directory; 1..4: the pass of the directory
    files,          \* the rest of the list the current pass iterates
    scan,           \* history: the last get_files call and its result
    dispatched,     \* history: the calls of run_convert_to_txt
    converterCalls, \* history: the invocations of the external converter
    exitCode        \* main's return value; -1 while the program runs

vars == <<fs, fs0, opts, warnings, stdout, pc, pathIdx, pass, files, scan,
          dispatched, converterCalls, exitCode>>

----------------------------------------------------------------------------
(* Characters and text *)

NL == "\n"
TAB == "\t"
SP == " "

\* The characters the model uses, in code-point order.
Ascii ==
    << "\t", "\n", " ", "-", ".",
       "0", "1", "2", "3", "4", "5", "6", "7", "8", "9",
       "A", "B", "C", "D", "E", "F", "G", "H", "I", "J", "K", "L", "M",
       "N", "O", "P", "Q", "R", "S", "T", "U", "V", "W", "X", "Y", "Z",
       "_",
       "a", "b", "c", "d", "e", "f", "g", "h", "i", "j", "k", "l", "m",
       "n", "o", "p", "q", "r", "s", "t", "u", "v", "w", "x", "y", "z",
       "{", "}" >>

Ord(c) == CHOOSE i \in 1..Len(Ascii) : Ascii[i] = c

UpperFirst == Ord("A")
UpperLast == Ord("Z")
CaseOffset == Ord("a") - Ord("A")

\* str.lower() on one character
LowerChar(c) ==
    IF Ord(c) >= UpperFirst /\ Ord(c) <= UpperLast
    THEN Ascii[Ord(c) + CaseOffset]
    ELSE c

\* str.lower()
lower(s) == [i \in 1..Len(s) |-> LowerChar(s[i])]

Last(s) == s[Len(s)]
Front(s) == SubSeq(s, 1, Len(s) - 1)

\* s.endswith(t)
EndsWith(s, t) ==
    /\ Len(t) <= Len(s)
    /\ SubSeq(s, Len(s) - Len(t) + 1, Len(s)) = t

\* t in s (substring test)
Contains(s, t) ==
    \E i \in 1..(Len(s) - Len(t) + 1) : SubSeq(s, i, i + Len(t) - 1) = t

\* s < t for str: lexicographic by code point
RECURSIVE StrLess(_, _)
StrLess(s, t) ==
    IF s = <<>> THEN t # <<>>
    ELSE IF t = <<>> THEN FALSE
    ELSE IF Head(s) = Head(t) THEN StrLess(Tail(s), Tail(t))
    ELSE Ord(Head(s)) < Ord(Head(t))

\* p < q for Path: lexicographic by component, components compared as str
RECURSIVE PathLess(_, _)
PathLess(p, q) ==
    IF p = <<>> THEN q # <<>>
    ELSE IF q = <<>> THEN FALSE
    ELSE IF Head(p) = Head(q) THEN PathLess(Tail(p), Tail(q))
    ELSE StrLess(Head(p), Head(q))

\* sorted(paths)
RECURSIVE sorted(_)
sorted(S) ==
    IF S = {} THEN <<>>
    ELSE LET m == CHOOSE x \in S : \A y \in S \ {x} : PathLess(x, y)
         IN  <<m>> \o sorted(S \ {m})

----------------------------------------------------------------------------
(* pathlib *)

DOT == "."

\* 1-based position of the last "." of a name, 0 when there is none
RDot(name) ==
    IF \E i \in 1..Len(name) : name[i] = DOT
    THEN CHOOSE i \in 1..Len(name) :
            /\ name[i] = DOT
            /\ \A j \in (i + 1)..Len(name) : name[j] # DOT
    ELSE 0

\* PurePath.suffix of a name: the last dot and what follows it, unless the
\* dot is the first or the last character
suffixOf(name) ==
    LET k == RDot(name)
    IN  IF 1 < k /\ k < Len(name) THEN SubSeq(name, k, Len(name)) ELSE <<>>

\* PurePath.stem of a name
stemOf(name) ==
    LET k == RDot(name)
    IN  IF 1 < k /\ k < Len(name) THEN SubSeq(name, 1, k - 1) ELSE name

name(p) == Last(p)
parent(p) == Front(p)
suffix(p) == suffixOf(name(p))
stem(p) == stemOf(name(p))

\* PurePath.with_suffix(suf), for a suf that starts with a dot
with_suffix(p, suf) ==
    LET old == suffix(p)
        base == IF old = <<>> THEN name(p)
                ELSE SubSeq(name(p), 1, Len(name(p)) - Len(old))
    IN  Append(parent(p), base \o suf)

exists(f, p) == p \in DOMAIN f
is_file(f, p) == exists(f, p) /\ f[p].kind = "file"
is_dir(f, p) == exists(f, p) /\ f[p].kind = "dir"

\* p lies below dir (at any depth)
Below(dir, p) == Len(p) > Len(dir) /\ SubSeq(p, 1, Len(dir)) = dir

\* Path.iterdir(): the direct children
iterdir(f, dir) == {p \in DOMAIN f : Below(dir, p) /\ Len(p) = Len(dir) + 1}

\* Path.glob("**/*" + ext): every entry below dir, of any kind, whose name
\* ends with ext (fnmatch, case-sensitive on POSIX)
globRecursive(f, dir, ext) ==
    {p \in DOMAIN f : Below(dir, p) /\ EndsWith(name(p), ext)}

----------------------------------------------------------------------------
(* textwrap.wrap(line, width=WRAP_WIDTH), with the defaults of TextWrapper: *)
(* expand_tabs, replace_whitespace, drop_whitespace, break_long_words.     *)
(* The model's text holds no hyphen inside a word, so a chunk is a maximal *)
(* run of whitespace or of other characters.                               *)

WRAP_WIDTH == 112

TabSize == 8

Whitespace == {TAB, NL, SP}

Spaces(n) == [i \in 1..n |-> SP]

\* 1-based position of the first character of s that lies in set C, 0 when
\* there is none
FirstIn(s, C) ==
    IF \E i \in 1..Len(s) : s[i] \in C
    THEN CHOOSE i \in 1..Len(s) : s[i] \in C /\ \A j \in 1..(i - 1) : s[j] \notin C
    ELSE 0

\* str.expandtabs(): a tab becomes the spaces up to the next tab stop; col is
\* the column the text starts at, a newline starts column 0 again
RECURSIVE expandtabs(_, _)
expandtabs(s, col) ==
    LET k == FirstIn(s, {TAB, NL})
    IN  IF k = 0 THEN s
        ELSE IF s[k] = TAB
             THEN SubSeq(s, 1, k - 1)
                  \o Spaces(TabSize - ((col + k - 1) % TabSize))
                  \o expandtabs(SubSeq(s, k + 1, Len(s)), 0)
        ELSE SubSeq(s, 1, k) \o expandtabs(SubSeq(s, k + 1, Len(s)), 0)

\* TextWrapper._munge_whitespace: expand the tabs, then turn every
\* whitespace character into a space
munge_whitespace(s) ==
    LET e == expandtabs(s, 0)
    IN  [i \in 1..Len(e) |-> IF e[i] \in Whitespace THEN SP ELSE e[i]]

\* str.strip() = '' on a chunk
IsBlankText(s) == \A i \in 1..Len(s) : s[i] \in Whitespace

\* TextWrapper._split on munged text: maximal runs of spaces and of
\* non-spaces, in order
RECURSIVE split_chunks(_)
split_chunks(s) ==
    IF s = <<>> THEN <<>>
    ELSE LET other == IF s[1] = SP THEN {c \in {s[i] : i \in 1..Len(s)} : c # SP}
                      ELSE {SP}
             k == FirstIn(s, other)
         IN  IF k = 0 THEN <<s>>
             ELSE <<SubSeq(s, 1, k - 1)>> \o split_chunks(SubSeq(s, k, Len(s)))

RECURSIVE JoinChunks(_)
JoinChunks(cs) == IF cs = <<>> THEN <<>> ELSE Head(cs) \o JoinChunks(Tail(cs))

\* the inner while loop of _wrap_chunks: take chunks while they fit
RECURSIVE fill_line(_, _, _, _)
fill_line(chunks, cur_line, cur_len, width) ==
    IF chunks # <<>> /\ cur_len + Len(Head(chunks)) <= width
    THEN fill_line(Tail(chunks), Append(cur_line, Head(chunks)),
                   cur_len + Len(Head(chunks)), width)
    ELSE <<cur_line, chunks>>

\* TextWrapper._wrap_chunks: one iteration of the outer loop per call
RECURSIVE wrap_chunks(_, _, _)
wrap_chunks(chunks, lines, width) ==
    IF chunks = <<>> THEN lines
    ELSE
    LET \* a line after the first does not start with whitespace
        c0 == IF IsBlankText(Head(chunks)) /\ lines # <<>>
              THEN Tail(chunks) ELSE chunks
        filled == fill_line(c0, <<>>, 0, width)
        cur1 == filled[1]
        rest1 == filled[2]
        \* _handle_long_word: the next chunk fits on no line, break it
        long == rest1 # <<>> /\ Len(Head(rest1)) > width
        space_left == width - Len(JoinChunks(cur1))
        cur2 == IF long
                THEN Append(cur1, SubSeq(Head(rest1), 1, space_left))
                ELSE cur1
        rest2 == IF long
                 THEN <<SubSeq(Head(rest1), space_left + 1, Len(Head(rest1)))>>
                      \o Tail(rest1)
                 ELSE rest1
        \* a line does not end with whitespace
        cur3 == IF cur2 # <<>> /\ IsBlankText(Last(cur2))
                THEN Front(cur2) ELSE cur2
        lines1 == IF cur3 # <<>> THEN Append(lines, JoinChunks(cur3)) ELSE lines
    IN  wrap_chunks(rest2, lines1, width)

\* textwrap.wrap(text, width)
textwrap_wrap(text, width) ==
    wrap_chunks(split_chunks(munge_whitespace(text)), <<>>, width)

\* file.readlines(): the lines of a text, each with its newline
RECURSIVE readlines(_)
readlines(s) ==
    IF s = <<>> THEN <<>>
    ELSE LET k == FirstIn(s, {NL})
         IN  IF k = 0 THEN <<s>>
             ELSE <<SubSeq(s, 1, k)>> \o readlines(SubSeq(s, k + 1, Len(s)))

RECURSIVE WriteLines(_)
WriteLines(ls) ==
    IF ls = <<>> THEN <<>> ELSE Head(ls) \o <<NL>> \o WriteLines(Tail(ls))

\* the body of the readlines loop that writes nothing for a line that
\* wraps to no segment
wrap_line_no_blank(line_in) ==
    WriteLines(textwrap_wrap(line_in, WRAP_WIDTH))

\* the body of the readlines loop: what one input line adds to the target
wrap_line(line_in) ==
    LET wrapped == textwrap_wrap(line_in, WRAP_WIDTH)
    IN  IF wrapped # <<>> THEN WriteLines(wrapped) ELSE <<NL>>

RECURSIVE WrapLines(_)
WrapLines(ls) ==
    IF ls = <<>> THEN <<>> ELSE wrap_line(Head(ls)) \o WrapLines(Tail(ls))

\* what make_wrapped_version writes for a source with this content
wrapped_content(content) == WrapLines(readlines(content))

----------------------------------------------------------------------------
(* Entries of the file system *)

DocBytes == <<"P", "K">>
OldText == <<"o", "l", "d", NL>>

\* modification times, as the local broken-down time strftime formats
SrcMTime == [year |-> 2024, month |-> 3, day |-> 5, hour |-> 7, minute |-> 9]
NowMTime == [year |-> 2026, month |-> 11, day |-> 2, hour |-> 13, minute |-> 45]

DirEntry == [kind |-> "dir", content |-> <<>>, mtime |-> SrcMTime]
OtherEntry == [kind |-> "other", content |-> <<>>, mtime |-> SrcMTime]
FileEntry(content, mtime) == [kind |-> "file", content |-> content, mtime |-> mtime]

\* open(path, "w") ... write(content): create or truncate and write
write_file(f, p, content) ==
    [q \in DOMAIN f \cup {p} |-> IF q = p THEN FileEntry(content, NowMTime) ELSE f[q]]

\* shutil.move(src, dst) with dst absent or a file: rename, replacing dst
shutil_move(f, src, dst) ==
    [q \in (DOMAIN f \ {src}) \cup {dst} |-> IF q = dst THEN f[src] ELSE f[q]]

----------------------------------------------------------------------------
(* get_date_time_tag *)

DigitChar(d) == Ascii[Ord("0") + d]

Pow10(k) == IF k = 0 THEN 1 ELSE IF k = 1 THEN 10 ELSE IF k = 2 THEN 100 ELSE 1000

\* "%0wd"
ZeroPad(n, w) == [i \in 1..w |-> DigitChar((n \div Pow10(w - i)) % 10)]

\* dt.strftime("%Y%m%d_%H%M")
strftime(t) ==
    ZeroPad(t.year, 4) \o ZeroPad(t.month, 2) \o ZeroPad(t.day, 2) \o <<"_">>
    \o ZeroPad(t.hour, 2) \o ZeroPad(t.minute, 2)

get_date_time_tag(f, file) == strftime(f[file].mtime)

----------------------------------------------------------------------------
(* make_wrapped_version *)

WrapTxt == <<"-", "w", "r", "a", "p", ".", "t", "x", "t">>

\* the wrap file named after the source document's own stem
wrap_target_doc_stem(source_path) ==
    Append(parent(source_path), stemOf(stem(source_path)) \o WrapTxt)

\* target_path = source_path.parent / f"{source_path.stem}-wrap.txt"
wrap_target(source_path) ==
    Append(parent(source_path), stem(source_path) \o WrapTxt)

\* make_wrapped_version(source_path, opts): the file system afterwards
make_wrapped_version(f, source_path) ==
    write_file(f, wrap_target(source_path), wrapped_content(f[source_path].content))

----------------------------------------------------------------------------
(* The external converter: libreoffice --convert-to txt --outdir dir file  *)
(* Its outcomes: "no_exe" (shutil.which finds no binary, check_call        *)
(* raises), "nonzero" (exit status not 0, nothing written), "ok" (exit 0,  *)
(* <stem>.txt written), "ok_nofile" (exit 0, nothing written).             *)

DotTxt == <<".", "t", "x", "t">>

\* the text the converter makes of a document
NewText == <<"h", "i", SP, "y", "o", "u", NL, NL, "a", TAB, "b">>

ConvTexts == {NewText}

Raises == {"no_exe", "nonzero"}
Writes == {"ok"}

\* the outcomes the converter can have on an input: only a regular file can
\* be loaded and converted
ConverterOutcomes(f, in_path) ==
    IF is_file(f, in_path)
    THEN {"no_exe", "nonzero", "ok", "ok_nofile"}
    ELSE {"no_exe", "nonzero", "ok_nofile"}

ConverterTexts(oc) == IF oc \in Writes THEN ConvTexts ELSE {<<>>}

\* the file the converter writes: the input's name with .txt for its suffix
converter_out_path(in_path) == with_suffix(in_path, DotTxt)

\* the file system after the converter ran
converter(f, in_path, oc, text) ==
    IF oc \in Writes THEN write_file(f, converter_out_path(in_path), text) ELSE f

----------------------------------------------------------------------------
(* run_convert_to_txt *)

AsTxt == <<"-", "a", "s", ".", "t", "x", "t">>

Line(kind, arg) == [kind |-> kind, arg |-> arg]

SkipExisting == "SKIP EXISTING"
SkipExplain ==
    "  Existing files are not overwritten unless the --overwrite (-o) option is used."

\* lines 107-112: the output name
new_name(f, in_path) ==
    IF opts.dt_tag
    THEN with_suffix(in_path,
            suffix(in_path) \o <<"-">> \o get_date_time_tag(f, in_path) \o AsTxt)
    ELSE with_suffix(in_path, suffix(in_path) \o AsTxt)

\* with_suffix raises ValueError for a suffix that does not start with a dot
InvalidSuffix(in_path) == suffix(in_path) = <<>>

\* line 114 without the test of the overwrite flag
skip_existing_always(f, in_path) == exists(f, new_name(f, in_path))

\* line 114: the output exists and may not be overwritten
skip_existing(f, in_path) ==
    exists(f, new_name(f, in_path)) /\ ~opts.do_overwrite

\* lines 140-142: move the converter's file to new_name and wrap it
install_output(f, in_path) ==
    LET nn == new_name(fs, in_path)
    IN  make_wrapped_version(shutil_move(f, converter_out_path(in_path), nn), nn)

\* a failed conversion is swallowed and the run goes on
after_failure_continue == "run"

\* an exception leaves main: the process ends with a traceback
after_failure == "aborted"

\* run_convert_to_txt(in_path, opts), the converter ending with outcome oc
\* and, when it writes, writing text
run_convert_to_txt(in_path, oc, text) ==
    LET odt == Line("ODT:", in_path)
        f1 == converter(fs, in_path, oc, text)
    IN
    /\ dispatched' = Append(dispatched,
                            [path |-> in_path, idx |-> pathIdx, pass |-> pass])
    /\ IF InvalidSuffix(in_path)
       THEN /\ stdout' = Append(stdout, odt)
            /\ pc' = after_failure
            /\ UNCHANGED <<fs, warnings, converterCalls>>
       ELSE IF skip_existing(fs, in_path)
       THEN /\ warnings' = warnings \o << Line(SkipExisting, new_name(fs, in_path)),
                                          Line(SkipExplain, <<>>) >>
            /\ stdout' = Append(stdout, odt)
            /\ UNCHANGED <<fs, pc, converterCalls>>
       ELSE /\ converterCalls' = Append(converterCalls,
                    [path |-> in_path, outcome |-> oc, text |-> text])
            /\ IF oc \in Raises \/ ~exists(f1, converter_out_path(in_path))
               THEN /\ fs' = f1
                    /\ stdout' = Append(stdout, odt)
                    /\ pc' = after_failure
               ELSE /\ fs' = install_output(f1, in_path)
                    /\ stdout' = stdout \o << odt,
                                    Line("  as:", new_name(fs, in_path)),
                                    Line("Wrap:", wrap_target(new_name(fs, in_path))) >>
                    /\ pc' = pc
            /\ UNCHANGED warnings

----------------------------------------------------------------------------
(* get_files *)

\* get_files(dir_path, file_ext, opts)
get_files(f, dir_path, file_ext) ==
    IF opts.do_recurse
    THEN sorted(globRecursive(f, dir_path, file_ext))
    ELSE sorted({p \in iterdir(f, dir_path) :
                    is_file(f, p) /\ lower(suffix(p)) = file_ext})

----------------------------------------------------------------------------
(* process_paths *)

DotOdt == <<".", "o", "d", "t">>
DotDoc == <<".", "d", "o", "c">>
DotDocx == <<".", "d", "o", "c", "x">>
DotBak == <<".", "b", "a", "k">>

\* line 168: the extensions of a file given on the command line
SupportedExts == {DotOdt, DotDoc, DotDocx}

\* the passes in alphabetical order of the extension
PassExtAlphabetical == <<DotDoc, DotDocx, DotOdt, DotBak>>

\* lines 174-186: the extension each pass of a directory looks for
PassExt == <<DotOdt, DotDocx, DotDoc, DotBak>>

BakPass == Len(PassExt)

\* every .bak file is taken for a document
bak_is_document_any(p) == TRUE

\* line 188: a .bak file is converted when its name holds .odt or .doc
bak_is_document(p) == Contains(name(p), DotOdt) \/ Contains(name(p), DotDoc)

\* the literal text of line 169, which is no f-string
LiteralP == << <<"{", "p", "}">> >>

Running == pc = "run" /\ pathIdx <= Len(opts.path_list)
CurPath == opts.path_list[pathIdx]

Scan(dir, ext) == [dir |-> dir, ext |-> ext, result |-> get_files(fs, dir, ext)]

\* warnings.append(w)
warn(w) == Append(warnings, w)

\* the error ends the loop over the paths
next_path_stop == Len(opts.path_list) + 1

\* continue: on to the next path
next_path == pathIdx + 1

\* lines 163-165: the path does not exist
PathNotFound ==
    /\ Running /\ pass = 0
    /\ ~exists(fs, CurPath)
    /\ warnings' = warn(Line("Path not found:", CurPath))
    /\ pathIdx' = next_path
    /\ UNCHANGED <<fs, fs0, opts, stdout, pc, pass, files, scan, dispatched,
                   converterCalls, exitCode>>

\* lines 167-170: a file of another type
PathUnsupported ==
    /\ Running /\ pass = 0
    /\ is_file(fs, CurPath)
    /\ lower(suffix(CurPath)) \notin SupportedExts
    /\ warnings' = warn(Line("Not a supported file type:", LiteralP))
    /\ pathIdx' = next_path
    /\ UNCHANGED <<fs, fs0, opts, stdout, pc, pass, files, scan, dispatched,
                   converterCalls, exitCode>>

\* lines 167-171: a document given on the command line
PathFile ==
    /\ Running /\ pass = 0
    /\ is_file(fs, CurPath)
    /\ lower(suffix(CurPath)) \in SupportedExts
    /\ \E oc \in ConverterOutcomes(fs, CurPath) : \E text \in ConverterTexts(oc) :
          run_convert_to_txt(CurPath, oc, text)
    /\ pathIdx' = IF pc' = "run" THEN next_path ELSE pathIdx
    /\ UNCHANGED <<fs0, opts, pass, files, scan, exitCode>>

\* lines 173-174: a directory; its first pass starts
PathDir ==
    /\ Running /\ pass = 0
    /\ is_dir(fs, CurPath)
    /\ pass' = 1
    /\ scan' = Scan(CurPath, PassExt[1])
    /\ files' = scan'.result
    /\ UNCHANGED <<fs, fs0, opts, warnings, stdout, pc, pathIdx, dispatched,
                   converterCalls, exitCode>>

\* lines 175-184: one iteration of the loop of an .odt, .docx or .doc pass
DirConvert ==
    /\ Running /\ pass \in 1..(BakPass - 1)
    /\ files # <<>>
    /\ \E oc \in ConverterOutcomes(fs, Head(files)) : \E text \in ConverterTexts(oc) :
          run_convert_to_txt(Head(files), oc, text)
    /\ files' = Tail(files)
    /\ UNCHANGED <<fs0, opts, pathIdx, pass, scan, exitCode>>

\* lines 178, 182, 186: a pass is through, the next one starts
DirNextPass ==
    /\ Running /\ pass \in 1..(BakPass - 1)
    /\ files = <<>>
    /\ pass' = pass + 1
    /\ scan' = Scan(CurPath, PassExt[pass + 1])
    /\ files' = scan'.result
    /\ UNCHANGED <<fs, fs0, opts, warnings, stdout, pc, pathIdx, dispatched,
                   converterCalls, exitCode>>

\* lines 187-190: a .bak file that is a document
DirBakConvert ==
    /\ Running /\ pass = BakPass
    /\ files # <<>>
    /\ bak_is_document(Head(files))
    /\ \E oc \in ConverterOutcomes(fs, Head(files)) : \E text \in ConverterTexts(oc) :
          run_convert_to_txt(Head(files), oc, text)
    /\ files' = Tail(files)
    /\ UNCHANGED <<fs0, opts, pathIdx, pass, scan, exitCode>>

\* lines 187-192: any other .bak file
DirBakSkip ==
    /\ Running /\ pass = BakPass
    /\ files # <<>>
    /\ ~bak_is_document(Head(files))
    /\ stdout' = Append(stdout, Line("SKIP:", Head(files)))
    /\ files' = Tail(files)
    /\ UNCHANGED <<fs, fs0, opts, warnings, pc, pathIdx, pass, scan, dispatched,
                   converterCalls, exitCode>>

\* the .bak pass is through: the directory is done
DirEnd ==
    /\ Running /\ pass = BakPass
    /\ files = <<>>
    /\ pass' = 0
    /\ pathIdx' = next_path
    /\ UNCHANGED <<fs, fs0, opts, warnings, stdout, pc, files, scan, dispatched,
                   converterCalls, exitCode>>

\* lines 193-194: neither a file nor a directory
PathOther ==
    /\ Running /\ pass = 0
    /\ exists(fs, CurPath) /\ ~is_file(fs, CurPath) /\ ~is_dir(fs, CurPath)
    /\ warnings' = warn(Line("Cannot process path", CurPath))
    /\ pathIdx' = next_path
    /\ UNCHANGED <<fs, fs0, opts, stdout, pc, pass, files, scan, dispatched,
                   converterCalls, exitCode>>

process_paths ==
    \/ PathNotFound
    \/ PathUnsupported
    \/ PathFile
    \/ PathDir
    \/ DirConvert
    \/ DirNextPass
    \/ DirBakConvert
    \/ DirBakSkip
    \/ DirEnd
    \/ PathOther

----------------------------------------------------------------------------
(* main *)

WarningsHeader == Line("WARNINGS:", <<>>)

\* the warnings are printed without their header
print_warnings_no_header == stdout \o warnings

\* lines 201-204
print_warnings ==
    IF warnings # <<>> THEN stdout \o <<WarningsHeader>> \o warnings ELSE stdout

\* lines 199-206: process_paths returned
MainEnd ==
    /\ pc = "run" /\ pathIdx > Len(opts.path_list)
    /\ stdout' = print_warnings
    /\ exitCode' = 0
    /\ pc' = "done"
    /\ UNCHANGED <<fs, fs0, opts, warnings, pathIdx, pass, files, scan, dispatched,
                   converterCalls>>

----------------------------------------------------------------------------
(* The runs the model covers *)

MaxExtra == 1
MaxPaths == 2
MaxTokens == 3

n_d == <<"d">>
TopDir == <<n_d>>
InTop(n) == <<n_d, n>>

a_odt == <<"a", ".", "o", "d", "t">>
b_docx == <<"b", ".", "d", "o", "c", "x">>
c_doc == <<"c", ".", "d", "o", "c">>
E_ODT == <<"E", ".", "O", "D", "T">>
x_odt_bak == <<"x", ".", "o", "d", "t", ".", "b", "a", "k">>
x_pdf_bak == <<"x", ".", "p", "d", "f", ".", "b", "a", "k">>
r_docx_bak == <<"r", ".", "d", "o", "c", "x", ".", "b", "a", "k">>
b_txt == <<"b", ".", "t", "x", "t">>
k_odt == <<"k", ".", "o", "d", "t">>
f_odt == <<"f", ".", "o", "d", "t">>
n_s == <<"s">>
n_p == <<"p">>
a_odt_as_txt == a_odt \o AsTxt
a_odt_tag_as_txt == a_odt \o <<"-">> \o strftime(SrcMTime) \o AsTxt

Ent(path, e) == [path |-> path, entry |-> e]

\* what the top directory may hold before the run
Universe ==
    { Ent(InTop(a_odt), FileEntry(DocBytes, SrcMTime)),
      Ent(InTop(b_docx), FileEntry(DocBytes, SrcMTime)),
      Ent(InTop(c_doc), FileEntry(DocBytes, SrcMTime)),
      Ent(InTop(E_ODT), FileEntry(DocBytes, SrcMTime)),
      Ent(InTop(x_odt_bak), FileEntry(DocBytes, SrcMTime)),
      Ent(InTop(x_pdf_bak), FileEntry(DocBytes, SrcMTime)),
      Ent(InTop(r_docx_bak), FileEntry(DocBytes, SrcMTime)),
      Ent(InTop(b_txt), FileEntry(OldText, SrcMTime)),
      Ent(InTop(a_odt_as_txt), FileEntry(OldText, SrcMTime)),
      Ent(InTop(a_odt_tag_as_txt), FileEntry(OldText, SrcMTime)),
      Ent(<<n_d, n_s, f_odt>>, FileEntry(DocBytes, SrcMTime)),
      Ent(InTop(k_odt), DirEntry),
      Ent(InTop(n_p), OtherEntry) }

\* the file system that holds the top directory, the entries E and the
\* directories above them
TreeOf(E) ==
    LET given == {e.path : e \in E}
        above == {TopDir} \cup {parent(q) : q \in given}
    IN  [q \in given \cup above |->
            IF q \in given THEN (CHOOSE e \in E : e.path = q).entry ELSE DirEntry]

\* the layouts every run starts from: an empty directory, two backup files,
\* one document of each type, a document beside a text file
BaseLayouts ==
    { {},
      {e \in Universe : e.path \in {InTop(x_odt_bak), InTop(x_pdf_bak)}},
      {e \in Universe : e.path \in {InTop(a_odt), InTop(b_docx), InTop(c_doc)}},
      {e \in Universe : e.path \in {InTop(a_odt), InTop(b_txt)}} }

\* a base layout and at most MaxExtra further entries
Trees ==
    {TreeOf(B \cup X) : B \in BaseLayouts,
                        X \in {S \in SUBSET Universe : Cardinality(S) <= MaxExtra}}

\* the paths a command line may name
PathCandidates == {TopDir, InTop(a_odt), InTop(b_txt), InTop(n_p)}

\* the command lines: at most MaxPaths paths, none of them twice
PathLists ==
    {l \in UNION {[1..n -> PathCandidates] : n \in 0..MaxPaths} :
        \A i, j \in 1..Len(l) : i # j => l[i] # l[j]}

NoScan == [dir |-> <<>>, ext |-> <<>>, result |-> <<>>]

Init ==
    /\ fs \in Trees
    /\ fs0 = fs
    /\ opts \in [path_list : PathLists, do_recurse : BOOLEAN,
                 do_overwrite : BOOLEAN, dt_tag : BOOLEAN]
    /\ warnings = <<>>
    /\ stdout = <<>>
    /\ pc = "run"
    /\ pathIdx = 1
    /\ pass = 0
    /\ files = <<>>
    /\ scan = NoScan
    /\ dispatched = <<>>
    /\ converterCalls = <<>>
    /\ exitCode = -1

Next == process_paths \/ MainEnd

Spec == Init /\ [][Next]_vars

----------------------------------------------------------------------------
(* make_wrapped_version on its own, over texts built from words and        *)
(* whitespace of the lengths around WRAP_WIDTH                             *)

Word(c, n) == [i \in 1..n |-> c]

WrapTokens ==
    { Word("a", 1), Word("b", WRAP_WIDTH - 1), Word("c", WRAP_WIDTH),
      Word("d", WRAP_WIDTH + 1), <<SP>>, Spaces(WRAP_WIDTH + 1), <<TAB>> }

WrapFirstLines ==
    {JoinChunks(ts) : ts \in UNION {[1..n -> WrapTokens] : n \in 0..MaxTokens}}

\* what follows the first line: nothing, an empty line, or a line of spaces
\* and a last line without a newline
WrapTails == { <<>>, <<NL>>, <<SP, SP, NL, "a", SP, "b">> }

WrapTexts == {l \o <<NL>> \o t : l \in WrapFirstLines, t \in WrapTails}

WrapSource == InTop(<<"t">> \o DotOdt \o AsTxt)

WrapInit ==
    /\ \E text \in WrapTexts :
          fs = [q \in {TopDir, WrapSource} |->
                    IF q = TopDir THEN DirEntry ELSE FileEntry(text, NowMTime)]
    /\ fs0 = fs
    /\ opts = [path_list |-> <<>>, do_recurse |-> FALSE,
               do_overwrite |-> FALSE, dt_tag |-> FALSE]
    /\ warnings = <<>>
    /\ stdout = <<>>
    /\ pc = "wrap"
    /\ pathIdx = 1
    /\ pass = 0
    /\ files = <<>>
    /\ scan = NoScan
    /\ dispatched = <<>>
    /\ converterCalls = <<>>
    /\ exitCode = -1

\* make_wrapped_version(WrapSource, opts)
WrapFile ==
    /\ pc = "wrap"
    /\ fs' = make_wrapped_version(fs, WrapSource)
    /\ stdout' = Append(stdout, Line("Wrap:", wrap_target(WrapSource)))
    /\ pc' = "wrapped"
    /\ UNCHANGED <<fs0, opts, warnings, pathIdx, pass, files, scan, dispatched,
                   converterCalls, exitCode>>

WrapNext == WrapFile

WrapSpec == WrapInit /\ [][WrapNext]_vars

----------------------------------------------------------------------------
(* Properties *)

\* the step is a call of run_convert_to_txt, on DispPath
IsDispatch == Len(dispatched') = Len(dispatched) + 1
DispPath == dispatched'[Len(dispatched')].path

\* the step invokes the converter
IsConverterCall == Len(converterCalls') = Len(converterCalls) + 1
LastCall == converterCalls'[Len(converterCalls')]

\* the output name as the documentation gives it: the whole original name,
\* the tag when asked for, then -as.txt
ClaimedOutput(f, p) ==
    Append(parent(p),
           name(p) \o (IF opts.dt_tag THEN <<"-">> \o strftime(f[p].mtime) ELSE <<>>)
                   \o AsTxt)

\* the paths of the calls of run_convert_to_txt made for path number k
DispatchedFor(k) ==
    LET ds == SelectSeq(dispatched, LAMBDA d : d.idx = k)
    IN  [i \in 1..Len(ds) |-> ds[i].path]

Children(f, dir) == {q \in DOMAIN f : Len(q) = Len(dir) + 1 /\ Below(dir, q)}

\* C1: when the computed output path already exists, run_convert_to_txt
\* without the overwrite flag appends exactly two warnings, does not invoke
\* the converter and leaves every file as it is; with the overwrite flag it
\* invokes the converter and, the converter having written its text, the
\* output file holds that text.
C1_ExistingOutput ==
    [][ (IsDispatch /\ exists(fs, ClaimedOutput(fs, DispPath))) =>
          IF ~opts.do_overwrite
          THEN /\ Len(warnings') = Len(warnings) + 2
               /\ SubSeq(warnings', 1, Len(warnings)) = warnings
               /\ warnings'[Len(warnings) + 1].kind = SkipExisting
               /\ converterCalls' = converterCalls
               /\ fs' = fs
               /\ pc' = pc
          ELSE /\ IsConverterCall
               /\ LastCall.path = DispPath
               /\ warnings' = warnings
               /\ (LastCall.outcome = "ok" =>
                     /\ is_file(fs', ClaimedOutput(fs, DispPath))
                     /\ fs'[ClaimedOutput(fs, DispPath)].content = LastCall.text)
      ]_vars

\* C1 witness: a run that met an existing output without the overwrite flag
\* ended with the two warnings and the files as they were.
C1_Witness ==
    /\ pc = "done"
    /\ ~opts.do_overwrite
    /\ Len(warnings) = 2
    /\ warnings[1] = Line(SkipExisting, InTop(a_odt_as_txt))
    /\ Len(dispatched) = 1
    /\ fs = fs0

\* the other case of C1: an existing output was replaced
C1_WitnessOverwrite ==
    /\ pc = "done"
    /\ opts.do_overwrite
    /\ exists(fs0, InTop(a_odt_as_txt))
    /\ fs0[InTop(a_odt_as_txt)].content # NewText
    /\ fs[InTop(a_odt_as_txt)].content = NewText

\* the files get_files is documented to return: the regular files in scope
\* whose suffix is ext whatever the case of its letters, in path order
ClaimedFiles(f, dir, ext, recurse) ==
    sorted({p \in DOMAIN f :
              /\ Below(dir, p)
              /\ recurse \/ Len(p) = Len(dir) + 1
              /\ f[p].kind = "file"
              /\ lower(suffix(p)) = ext})

\* the .bak files among fl that are taken for documents
BakDocuments(fl) ==
    SelectSeq(fl, LAMBDA p : Contains(name(p), DotOdt) \/ Contains(name(p), DotDoc))

\* the order of the passes as the documentation gives it
ClaimedPassOrder == <<DotOdt, DotDocx, DotDoc, DotBak>>

\* C2: the files of a directory reach run_convert_to_txt in the order .odt,
\* .docx, .doc, .bak, those of one pass in ascending path order; a directory
\* of exactly one .odt, one .docx and one .doc file, processed without the
\* recurse flag by a run that ends, has exactly these three dispatched, in
\* that order; and without the flag a run that ends has dispatched, for each
\* directory, every file of each pass.
C2_DispatchOrder ==
    /\ \A i \in 1..Len(dispatched) :
          dispatched[i].pass > 0 =>
             lower(suffix(dispatched[i].path)) = ClaimedPassOrder[dispatched[i].pass]
    /\ \A i, j \in 1..Len(dispatched) :
          (i < j /\ dispatched[i].idx = dispatched[j].idx) =>
             /\ dispatched[i].pass <= dispatched[j].pass
             /\ dispatched[i].pass = dispatched[j].pass =>
                   PathLess(dispatched[i].path, dispatched[j].path)
    /\ \A k \in 1..Len(opts.path_list) :
          ( /\ pc = "done"
            /\ ~opts.do_recurse
            /\ opts.path_list[k] = TopDir
            /\ Children(fs0, TopDir) = {InTop(a_odt), InTop(b_docx), InTop(c_doc)} )
          => DispatchedFor(k) = <<InTop(a_odt), InTop(b_docx), InTop(c_doc)>>
    /\ \A k \in 1..Len(opts.path_list) :
          (pc = "done" /\ ~opts.do_recurse /\ is_dir(fs0, opts.path_list[k]))
          => DispatchedFor(k) =
                ClaimedFiles(fs0, opts.path_list[k], DotOdt, FALSE)
                \o ClaimedFiles(fs0, opts.path_list[k], DotDocx, FALSE)
                \o ClaimedFiles(fs0, opts.path_list[k], DotDoc, FALSE)
                \o BakDocuments(ClaimedFiles(fs0, opts.path_list[k], DotBak, FALSE))

\* C2 witness: the directory of three documents was processed to the end.
C2_Witness ==
    /\ pc = "done"
    /\ ~opts.do_recurse
    /\ opts.path_list = <<TopDir>>
    /\ Children(fs0, TopDir) = {InTop(a_odt), InTop(b_docx), InTop(c_doc)}
    /\ Len(converterCalls) = 3

NoFlags == ~opts.do_recurse /\ ~opts.do_overwrite /\ ~opts.dt_tag

\* the run of the end-to-end example: no flags, the directory {a.odt, b.txt}
EndToEndRun ==
    /\ pc = "done"
    /\ NoFlags
    /\ opts.path_list = <<TopDir>>
    /\ Children(fs0, TopDir) = {InTop(a_odt), InTop(b_txt)}
    /\ Len(converterCalls) = 1

TxtLen == Len(DotTxt)

\* a name without its last four characters (.txt)
WithoutTxt(n) == SubSeq(n, 1, Len(n) - TxtLen)

\* the document name an output name <doc>-as.txt was made from, without the
\* document's own suffix
DocStem(n) == stemOf(SubSeq(n, 1, Len(n) - Len(AsTxt)))

\* C3 as stated: the wrap file of <stem>.<ext>-as.txt is <stem>-wrap.txt, and
\* the end-to-end run leaves {a.odt, b.txt, a.odt-as.txt, a-wrap.txt}.
C3_Original ==
    /\ \A i \in 2..Len(stdout) :
          stdout[i].kind = "Wrap:" =>
             stdout[i].arg = Append(parent(stdout[i - 1].arg),
                                    DocStem(name(stdout[i - 1].arg)) \o WrapTxt)
    /\ EndToEndRun =>
          Children(fs, TopDir) =
             {InTop(a_odt), InTop(b_txt), InTop(a_odt_as_txt), InTop(<<"a">> \o WrapTxt)}

\* C3 amended: the wrap file of an output file is the sibling named by the
\* output name with -wrap.txt in place of its final .txt (report.odt-as.txt
\* gives report.odt-as-wrap.txt), and the end-to-end run leaves {a.odt, b.txt,
\* a.odt-as.txt, a.odt-as-wrap.txt}.
C3_Amended ==
    /\ \A i \in 2..Len(stdout) :
          stdout[i].kind = "Wrap:" =>
             /\ stdout[i - 1].kind = "  as:"
             /\ stdout[i].arg = Append(parent(stdout[i - 1].arg),
                                       WithoutTxt(name(stdout[i - 1].arg)) \o WrapTxt)
             /\ is_file(fs, stdout[i].arg)
    /\ EndToEndRun =>
          Children(fs, TopDir) =
             {InTop(a_odt), InTop(b_txt), InTop(a_odt_as_txt),
              InTop(a_odt \o <<"-", "a", "s">> \o WrapTxt)}

\* C3 witness: the end-to-end run ended and the wrap file is there.
C3_Witness ==
    /\ EndToEndRun
    /\ is_file(fs, InTop(a_odt \o <<"-", "a", "s">> \o WrapTxt))
    /\ stdout[Len(stdout)].kind = "Wrap:"

\* the converter failed on the call: no binary, exit status not 0, or no
\* <stem>.txt afterwards
ConverterFailed ==
    \/ LastCall.outcome \in {"no_exe", "nonzero"}
    \/ /\ LastCall.outcome = "ok_nofile"
       /\ ~exists(fs, Append(parent(LastCall.path), stem(LastCall.path) \o DotTxt))

\* C4: a failure of the converter ends the run at once: the step leaves every
\* file as it is (nothing moved or wrapped, the earlier outputs untouched),
\* and after it nothing is dispatched, converted, printed or returned.
C4_FailureIsFatal ==
    [][ /\ (IsConverterCall /\ ConverterFailed) =>
             (pc' = "aborted" /\ fs' = fs /\ warnings' = warnings)
        /\ pc = "aborted" =>
             (dispatched' = dispatched /\ converterCalls' = converterCalls
              /\ fs' = fs /\ pc' = "aborted" /\ exitCode' = exitCode)
      ]_vars

\* C4 witness: the converter failed after an earlier document was converted,
\* and that document's outputs are in place.
C4_Witness ==
    /\ pc = "aborted"
    /\ Len(converterCalls) = 2
    /\ converterCalls[1].outcome = "ok"
    /\ converterCalls[2].outcome = "nonzero"
    /\ is_file(fs, ClaimedOutput(fs0, converterCalls[1].path))
    /\ fs[ClaimedOutput(fs0, converterCalls[1].path)].content = converterCalls[1].text
    /\ ~exists(fs, ClaimedOutput(fs0, converterCalls[2].path))

\* a name the program computes for an output: it ends with -as.txt or with
\* -wrap.txt
IsOutputName(p) == EndsWith(name(p), AsTxt) \/ EndsWith(name(p), WrapTxt)

\* C5: every file that existed before the run and is not at a computed
\* output name exists with the same content afterwards.
C5_OtherFilesUntouched ==
    \A p \in DOMAIN fs0 :
        ~IsOutputName(p) => (exists(fs, p) /\ fs[p] = fs0[p])

ClaimedSupported == {DotOdt, DotDoc, DotDocx}

\* the current path is one process_paths cannot process
BadPath ==
    /\ pc = "run" /\ pass = 0 /\ pathIdx <= Len(opts.path_list)
    /\ \/ ~exists(fs, CurPath)
       \/ is_file(fs, CurPath) /\ lower(suffix(CurPath)) \notin ClaimedSupported
       \/ exists(fs, CurPath) /\ fs[CurPath].kind \notin {"file", "dir"}

\* C6: a path that does not exist, is a file of an unsupported type, or is
\* neither a file nor a directory adds exactly one warning, causes no
\* conversion, and the loop goes on to the next path; a run that ends has
\* dispatched every supported file named after it.
C6_BadPathWarnsAndContinues ==
    [][ /\ BadPath =>
             /\ Len(warnings') = Len(warnings) + 1
             /\ SubSeq(warnings', 1, Len(warnings)) = warnings
             /\ dispatched' = dispatched
             /\ converterCalls' = converterCalls
             /\ fs' = fs
             /\ pc' = "run"
             /\ pathIdx' = pathIdx + 1
        /\ pc' = "done" =>
             \A k \in 1..Len(opts.path_list) :
                 (is_file(fs0, opts.path_list[k])
                  /\ lower(suffix(opts.path_list[k])) \in ClaimedSupported)
                 => DispatchedFor(k)' = <<opts.path_list[k]>>
      ]_vars

\* C6 witness: a path that was not found came first, and the document named
\* after it was converted.
C6_Witness ==
    /\ pc = "done"
    /\ Len(opts.path_list) = 2
    /\ Len(warnings) = 1
    /\ warnings[1] = Line("Path not found:", opts.path_list[1])
    /\ Len(converterCalls) = 1
    /\ converterCalls[1].path = opts.path_list[2]
    /\ converterCalls[1].outcome = "ok"

ConsoleKinds == {"ODT:", "  as:", "Wrap:", "SKIP:"}

\* C7: no warning and no WARNINGS: header is printed while paths are being
\* processed; a run ends only after the last path, with exit code 0, and has
\* then printed the header and the warnings, in the order they were recorded,
\* once, as its last lines, and nothing of the kind when there is no warning.
C7_WarningsAtEnd ==
    /\ pc # "done" =>
          /\ exitCode = -1
          /\ \A i \in 1..Len(stdout) : stdout[i].kind \in ConsoleKinds
    /\ pc = "done" =>
          LET n == Len(warnings)
              m == Len(stdout)
              pre == IF n = 0 THEN m ELSE m - n - 1
          IN  /\ exitCode = 0
              /\ pathIdx > Len(opts.path_list)
              /\ pre >= 0
              /\ \A i \in 1..pre : stdout[i].kind \in ConsoleKinds
              /\ n > 0 => /\ stdout[pre + 1] = WarningsHeader
                          /\ SubSeq(stdout, pre + 2, m) = warnings

\* C7 witness: a run ended with several warnings printed after other output.
C7_Witness ==
    /\ pc = "done"
    /\ exitCode = 0
    /\ Len(warnings) >= 3
    /\ Len(converterCalls) >= 1
    /\ stdout[Len(stdout)] = warnings[Len(warnings)]

\* C8: in the .bak pass of a directory a file is handed to
\* run_convert_to_txt exactly when its name holds .odt or .doc; any other
\* .bak file is reported with a SKIP line, reaches neither run_convert_to_txt
\* nor the converter and adds no warning.
C8_BakFiles ==
    [][ (pc = "run" /\ pass = Len(ClaimedPassOrder) /\ files # <<>>) =>
          IF Contains(name(Head(files)), DotOdt) \/ Contains(name(Head(files)), DotDoc)
          THEN IsDispatch /\ DispPath = Head(files)
          ELSE /\ dispatched' = dispatched
               /\ converterCalls' = converterCalls
               /\ warnings' = warnings
               /\ fs' = fs
               /\ stdout' = Append(stdout, Line("SKIP:", Head(files)))
      ]_vars

\* C8 witness: of two backup files, x.odt.bak was converted and x.pdf.bak
\* skipped, without a warning.
C8_Witness ==
    /\ pc = "done"
    /\ warnings = <<>>
    /\ \E i \in 1..Len(stdout) : stdout[i] = Line("SKIP:", InTop(x_pdf_bak))
    /\ \E i \in 1..Len(converterCalls) :
          converterCalls[i].path = InTop(x_odt_bak) /\ converterCalls[i].outcome = "ok"
    /\ \A i \in 1..Len(dispatched) : dispatched[i].path # InTop(x_pdf_bak)

\* C9: with or without the recurse flag, get_files returns exactly the
\* regular files in scope whose suffix equals the extension, compared
\* case-insensitively, in path order.
C9_GetFiles ==
    [][ scan' # scan =>
          scan'.result = ClaimedFiles(fs, scan'.dir, scan'.ext, opts.do_recurse)
      ]_vars

----------------------------------------------------------------------------
(* Properties of make_wrapped_version *)

WrapIn == fs[WrapSource].content
WrapOut == fs[wrap_target(WrapSource)].content

\* the lines of a text without their newlines
LinesOf(text) ==
    LET ls == readlines(text)
    IN  [i \in 1..Len(ls) |->
            IF Last(ls[i]) = NL THEN Front(ls[i]) ELSE ls[i]]

NonBlankChars(text) == SelectSeq(text, LAMBDA c : c \notin Whitespace)

\* for each line whether it is blank, runs of non-blank lines taken as one
RECURSIVE BlankPattern(_)
BlankPattern(ls) ==
    IF ls = <<>> THEN <<>>
    ELSE LET rest == BlankPattern(Tail(ls))
             b == IsBlankText(Head(ls))
         IN  IF ~b /\ rest # <<>> /\ ~Head(rest) THEN rest ELSE <<b>> \o rest

\* C10: the wrap file is made of newline-terminated lines of at most 112
\* characters; it has exactly one empty line for each blank line of the
\* input, at the same place among the other lines; the words of the input
\* appear in it in their order; and an input line of exactly 112 characters,
\* none of them whitespace, is in it unchanged.
C10_WrappedLines ==
    pc = "wrapped" =>
        LET ins == LinesOf(WrapIn)
            outs == LinesOf(WrapOut)
        IN  /\ WrapOut # <<>> => Last(WrapOut) = NL
            /\ \A i \in 1..Len(outs) : Len(outs[i]) <= 112
            /\ \A i \in 1..Len(outs) : IsBlankText(outs[i]) => outs[i] = <<>>
            /\ Cardinality({i \in 1..Len(outs) : outs[i] = <<>>})
                  = Cardinality({i \in 1..Len(ins) : IsBlankText(ins[i])})
            /\ BlankPattern(outs) = BlankPattern(ins)
            /\ NonBlankChars(WrapOut) = NonBlankChars(WrapIn)
            /\ (Len(ins[1]) = 112 /\ NonBlankChars(ins[1]) = ins[1]) =>
                  (outs[1] = ins[1] /\ (Len(ins) = 1 => Len(outs) = 1))

\* C10 witness: a line of 112 letters followed by an empty line was wrapped.
C10_Witness ==
    /\ pc = "wrapped"
    /\ WrapIn = Word("c", 112) \o <<NL, NL>>
    /\ WrapOut = WrapIn

====
